---- MODULE Spec2Model ----
(***************************************************************************)
(* A model of the DNC class of model.py: the state set up by __init__, the *)
(* per-step method call() with its sub-steps, and the pure methods         *)
(* partition_interface, content_lookup and allocation_weighting.           *)
(*                                                                         *)
(* Tensors hold reals.  They are modelled by exact rationals [n, d] kept   *)
(* in lowest terms, so every sum and product of the code is computed       *)
(* exactly.  The transcendental functions are modelled by surrogates that  *)
(* keep the properties the code relies on: ExpQ is positive and strictly   *)
(* increasing (2^x, linear between integers), Log2Q is its inverse, and    *)
(* sigmoid / softplus saturate at +-Sat as their float32 kernels do.       *)
(* Square roots are exact: inputs are drawn so that every squared norm is  *)
(* a perfect square.                                                       *)
(***************************************************************************)
EXTENDS Integers, Sequences, FiniteSets, TLC

VARIABLES
  N, W, R,          \* memory_shape and n_read, fixed at construction
  pc,               \* position inside call(): 0 between calls, else index in callOrder
  steps,            \* completed invocations of call()
  h,                \* controller hidden state (abstract: which projection it yields)
  output,           \* self.output
  interface,        \* self.interface, a flat sequence of length interface_dim
  parts,            \* result of tf.dynamic_partition in partition_interface
  iv,               \* the ten values partition_interface returns
  M, usage, L, W_precedence, W_read, W_write, read_v,
  trace,            \* sub-steps executed so far by the current invocation of call()
  hist,             \* the partitioned interface of every completed step
  op,               \* unit harness: the method under test ("" in the program)
  key, strength,    \* unit harness: the arguments of content_lookup
  free_list,        \* allocation_weighting's local free_list[0]
  ret,              \* unit harness: the value the method returned
  M_prev            \* unit harness: M before the method ran

vars == <<N, W, R, pc, steps, h, output, interface, parts, iv, M, usage, L,
          W_precedence, W_read, W_write, read_v, trace, hist, op, key,
          strength, free_list, ret, M_prev>>

-----------------------------------------------------------------------------
(* Bounds of the model *)

MaxN == 4
MaxW == 2
MaxR == 2
MaxSteps == 2
\* usage entries of the harness are 0/Den, 1/Den, ..., Den/Den
Den == 3
\* memory rows of the harness for content_lookup, write and read
UnitN == 2
\* raw values of magnitude Sat or more stand for inputs large enough that the
\* float32 sigmoid returns exactly 1 (or 0) and softplus returns x (or 0)
Sat == 16

-----------------------------------------------------------------------------
(* Exact rationals *)

Abs(x) == IF x < 0 THEN -x ELSE x

RECURSIVE Gcd(_, _)
Gcd(a, b) == IF b = 0 THEN a ELSE Gcd(b, a % b)

Q(n, d) ==
  LET s == IF d < 0 THEN -1 ELSE 1
      g == Gcd(Abs(n), Abs(d))
  IN  [n |-> (s * n) \div g, d |-> (s * d) \div g]

Zero == Q(0, 1)
One == Q(1, 1)
QInt(k) == Q(k, 1)
QAdd(a, b) == Q(a.n * b.d + b.n * a.d, a.d * b.d)
QNeg(a) == [n |-> -a.n, d |-> a.d]
QSub(a, b) == QAdd(a, QNeg(b))
QMul(a, b) == Q(a.n * b.n, a.d * b.d)
QDiv(a, b) == Q(a.n * b.d, a.d * b.n)
QLe(a, b) == a.n * b.d <= b.n * a.d
QLt(a, b) == a.n * b.d < b.n * a.d
QFloor(a) == a.n \div a.d

RECURSIVE QSum(_)
QSum(s) == IF s = <<>> THEN Zero ELSE QAdd(Head(s), QSum(Tail(s)))

Pow2(k) == IF k >= 0 THEN [n |-> 2 ^ k, d |-> 1] ELSE [n |-> 1, d |-> 2 ^ (-k)]

\* surrogate of e^x: 2^floor(x) * (1 + frac(x)); positive, strictly increasing
ExpQ(x) ==
  LET k == QFloor(x)
  IN  QMul(Pow2(k), QAdd(One, QSub(x, QInt(k))))

\* floor(log2(m)) of an integer m >= 1
ILog2(m) == CHOOSE e \in 0..29 : 2 ^ e <= m /\ (e = 29 \/ m < 2 ^ (e + 1))

\* floor(log2(y)) of a positive rational
QLog2Floor(y) ==
  IF y.n >= y.d THEN ILog2(y.n \div y.d)
  ELSE LET z == y.d \div y.n
           e == ILog2(z)
       IN  IF y.d = y.n * (2 ^ e) THEN -e ELSE -(e + 1)

\* inverse of ExpQ on the positive rationals
Log2Q(y) ==
  LET k == QLog2Floor(y)
  IN  QAdd(QInt(k), QSub(QDiv(y, Pow2(k)), One))

\* tf.nn.sigmoid; exactly 0 and 1 once saturated
sigmoid(x) ==
  IF QLe(QInt(Sat), x) THEN One
  ELSE IF QLe(x, QInt(-Sat)) THEN Zero
  ELSE QDiv(One, QAdd(One, ExpQ(QNeg(x))))

\* tf.nn.softplus, log(1 + exp(x)); x itself and 0 once saturated
softplus(x) ==
  IF QLe(QInt(Sat), x) THEN x
  ELSE IF QLe(x, QInt(-Sat)) THEN Zero
  ELSE Log2Q(QAdd(One, ExpQ(x)))

\* the one element of a singleton; {F(x) : x \in {e}} evaluates e once
The(S) == CHOOSE x \in S : TRUE

QMax(v) == CHOOSE x \in {v[i] : i \in 1..Len(v)} :
             \A i \in 1..Len(v) : QLe(v[i], x)

\* tf.nn.softmax over a vector (the kernel subtracts the maximum first)
softmax(v) ==
  The({ The({ [i \in 1..Len(v) |-> QDiv(e[i], s)] : s \in {QSum(e)} }) :
        e \in { The({ [i \in 1..Len(v) |-> ExpQ(QSub(v[i], mx))] :
                      mx \in {QMax(v)} }) } })

IsSquare(n) == \E r \in 0..n : r * r = n
ISqrt(n) == CHOOSE r \in 0..n : r * r = n

Fill(n, v) == [i \in 1..n |-> v]
Fill2(n, m, v) == [i \in 1..n |-> [j \in 1..m |-> v]]
-----------------------------------------------------------------------------
(* DNC.__init__ *)

\* tf.fill(..., 1e-6)
Eps == [n |-> 1, d |-> 1000000]

interface_dim(r, w) == r * w + 3 * w + 5 * r + 3

InitM(n, w) == Fill2(n, w, Zero)
\* a fill that drops the sign of the exponent
InitUsage_1e6(n) == Fill(n, [n |-> 1000000, d |-> 1])
InitUsage(n) == Fill(n, Eps)
\* tf.ones in place of tf.zeros
InitL_ones(n) == Fill2(n, n, One)
InitL(n) == Fill2(n, n, Zero)
InitPrecedence(n) == Fill(n, Zero)
InitWRead(n, r) == Fill2(n, r, Eps)
InitWWrite(n) == Fill(n, Eps)
InitReadV(r, w) == Fill2(r, w, Eps)

\* tf.truncated_normal(stddev=0.1) lies within [-0.2, 0.2]; on the integer grid
\* of raw projections that is the zero vector
InitInterface(r, w) == Fill(interface_dim(r, w), 0)

-----------------------------------------------------------------------------
(* DNC.partition_interface *)

\* a list with the write strength ahead of the write key
partition_swapped(r, w) ==
  Fill(r * w, 0) \o Fill(r, 1) \o <<3>> \o Fill(w, 2) \o Fill(w, 4) \o
  Fill(w, 5) \o Fill(r, 6) \o <<7>> \o <<8>> \o Fill(r * 3, 9)

\* the list handed to tf.constant
partition(r, w) ==
  Fill(r * w, 0) \o Fill(r, 1) \o Fill(w, 2) \o <<3>> \o Fill(w, 4) \o
  Fill(w, 5) \o Fill(r, 6) \o <<7>> \o <<8>> \o Fill(r * 3, 9)

RECURSIVE Pick(_, _, _, _)
Pick(data, parts_, p, i) ==
  IF i > Len(data) THEN <<>>
  ELSE (IF parts_[i] = p THEN <<data[i]>> ELSE <<>>) \o Pick(data, parts_, p, i + 1)

\* tf.dynamic_partition(data, partitions, num): output p holds, in order, the
\* entries of data whose partition number is p
dynamic_partition(data, partitions, num) ==
  [p \in 1..num |-> Pick(data, partitions, p - 1, 1)]

\* tf.reshape of a flat sequence to [rows, cols], row-major
reshape(v, rows, cols) ==
  [i \in 1..rows |-> [j \in 1..cols |-> v[(i - 1) * cols + j]]]

QSeq(v) == [i \in 1..Len(v) |-> QInt(v[i])]

\* tf.nn.softmax(x, axis=0) of a matrix: down each column
softmax_axis0(x, rows, cols) ==
  The({ [i \in 1..rows |-> [j \in 1..cols |-> col[j][i]]] :
        col \in { [j \in 1..cols |->
                     The({ softmax(c) : c \in {[i \in 1..rows |-> x[i][j]]} })] } })

activations(p, r, w) ==
  [k_read     |-> reshape(QSeq(p[1]), r, w),
   b_read     |-> [i \in 1..r |-> QAdd(One, softplus(QInt(p[2][i])))],
   k_write    |-> QSeq(p[3]),
   b_write    |-> QAdd(One, softplus(QInt(p[4][1]))),
   erase      |-> [i \in 1..w |-> sigmoid(QInt(p[5][i]))],
   write_v    |-> QSeq(p[6]),
   free_gates |-> [i \in 1..r |-> sigmoid(QInt(p[7][i]))],
   alloc_gate |-> sigmoid(QInt(p[8][1])),
   write_gate |-> sigmoid(QInt(p[9][1])),
   read_modes |-> softmax_axis0(reshape(QSeq(p[10]), 3, r), 3, r)]

partition_interface(itf, r, w) ==
  activations(dynamic_partition(itf, partition(r, w), 10), r, w)

NoIv == [k_read |-> <<>>, b_read |-> <<>>, k_write |-> <<>>, b_write |-> Zero,
         erase |-> <<>>, write_v |-> <<>>, free_gates |-> <<>>,
         alloc_gate |-> Zero, write_gate |-> Zero, read_modes |-> <<>>]
-----------------------------------------------------------------------------
(* The controller and its projections: external collaborators.  The LSTM    *)
(* may leave any hidden state; a hidden state is identified by the raw      *)
(* interface vector tf.matmul(h, W_interface) maps it to.                   *)

\* one raw value per field, in the order the controller's weights were
\* trained to emit them
Profiles ==
  << <<0, 0, 0, 0, Sat, 1, 0, Sat, Sat, 0>>,
     <<0, 0, 0, 0, Sat, 2, 0, Sat, Sat, 0>>,
     <<0, 0, 0, 0, 0, 0, 0, 0, 0, 0>>,
     <<1, 1, 1, 1, -Sat, 1, Sat, -Sat, -Sat, 1>> >>

HiddenStates == 1..Len(Profiles)

Emit(f, r, w) ==
  Fill(r * w, f[1]) \o Fill(r, f[2]) \o Fill(w, f[3]) \o <<f[4]>> \o
  Fill(w, f[5]) \o Fill(w, f[6]) \o Fill(r, f[7]) \o <<f[8]>> \o <<f[9]>> \o
  Fill(3 * r, f[10])

\* tf.matmul(self.h, self.W_interface)
project_interface(hid, r, w) == Emit(Profiles[hid], r, w)

\* tf.matmul(self.h, self.W_output)
project_output(hid) == hid

-----------------------------------------------------------------------------
(* DNC.write and DNC.read: both bodies are `pass` *)

\* the fields the method may touch
WriteState == [M |-> M, usage |-> usage, L |-> L, W_precedence |-> W_precedence,
               W_write |-> W_write]
ReadState == [W_read |-> W_read, read_v |-> read_v]

write(st) == st

read(st) == st

DoWrite ==
  LET st == write(WriteState)
  IN  /\ M' = st.M
      /\ usage' = st.usage
      /\ L' = st.L
      /\ W_precedence' = st.W_precedence
      /\ W_write' = st.W_write
      /\ UNCHANGED <<W_read, read_v>>

DoRead ==
  LET st == read(ReadState)
  IN  /\ W_read' = st.W_read
      /\ read_v' = st.read_v
      /\ UNCHANGED <<M, usage, L, W_precedence, W_write>>

-----------------------------------------------------------------------------
(* DNC.content_lookup *)

QSqrt(q) == Q(ISqrt(q.n), ISqrt(q.d))

SumSq(x) == QSum([i \in 1..Len(x) |-> QMul(x[i], x[i])])

\* tf.nn.l2_normalize(x, 1) of one row: x / sqrt(max(sum(x^2), 1e-12)).  A zero
\* row stays zero; every other row drawn here has sum(x^2) >= 1
l2_normalize(x) ==
  IF SumSq(x) = Zero THEN x
  ELSE [i \in 1..Len(x) |-> QDiv(x[i], QSqrt(SumSq(x)))]

Dot(x, y) == QSum([i \in 1..Len(x) |-> QMul(x[i], y[i])])

\* tf.matmul(a, b, transpose_b=True)
matmul_bT(a, b) == [i \in 1..Len(a) |-> [j \in 1..Len(b) |-> Dot(a[i], b[j])]]

\* sim * strength: strength is [1, K] and broadcasts over the N rows
scale_columns(sim, b) ==
  [i \in 1..Len(sim) |-> [j \in 1..Len(b) |-> QMul(sim[i][j], b[j])]]

\* tf.nn.softmax(x, axis=1) of a matrix: along each row
softmax_axis1(x, rows, cols) ==
  The({ [i \in 1..rows |-> [j \in 1..cols |-> row[i][j]]] :
        row \in { [i \in 1..rows |-> The({ softmax(c) : c \in {x[i]} })] } })

\* content_lookup with the softmax across the keys
content_lookup_axis1(m, k, b) ==
  The({ softmax_axis1(scaled, Len(m), Len(k)) :
        scaled \in { The({ scale_columns(sim, b) :
          sim \in { The({ matmul_bT(norm_mem, norm_key) :
            norm_mem \in {[i \in 1..Len(m) |-> l2_normalize(m[i])]},
            norm_key \in {[j \in 1..Len(k) |-> l2_normalize(k[j])]} }) } }) } })

content_lookup(m, k, b) ==
  The({ softmax_axis0(scaled, Len(m), Len(k)) :
        scaled \in { The({ scale_columns(sim, b) :
          sim \in { The({ matmul_bT(norm_mem, norm_key) :
            norm_mem \in {[i \in 1..Len(m) |-> l2_normalize(m[i])]},
            norm_key \in {[j \in 1..Len(k) |-> l2_normalize(k[j])]} }) } }) } })

-----------------------------------------------------------------------------
(* DNC.allocation_weighting *)

\* tf.nn.top_k(v, k=Len(v)): the entries largest first, the lower index first
\* among equal entries, with the index each came from
RECURSIVE top_k_from(_, _)
top_k_from(v, left) ==
  IF left = {} THEN <<>>
  ELSE LET best == CHOOSE i \in left :
                     \A j \in left : \/ QLt(v[j], v[i])
                                      \/ (v[j] = v[i] /\ i <= j)
       IN  <<best>> \o top_k_from(v, left \ {best})

top_k(v) ==
  The({ [values |-> [p \in 1..Len(v) |-> v[idx[p]]], indices |-> idx] :
        idx \in {top_k_from(v, 1..Len(v))} })

\* a sort that forgets the negation: the most used row comes first
top_k_usage_noneg(u) == top_k(u)

\* a sort that looks every sorted value up by its first occurrence
top_k_usage_firstidx(u) ==
  The({ [values |-> t.values,
         indices |-> [p \in 1..Len(u) |->
                        CHOOSE i \in 1..Len(u) :
                          /\ QNeg(u[i]) = t.values[p]
                          /\ \A j \in 1..(i - 1) : QNeg(u[j]) /= t.values[p]]] :
        t \in {top_k([i \in 1..Len(u) |-> QMul(QInt(-1), u[i])])} })

\* tf.nn.top_k(-1 * tf.transpose(self.usage), k=self.N)
top_k_usage(u) == top_k([i \in 1..Len(u) |-> QMul(QInt(-1), u[i])])

\* tf.cumprod(x, axis=1, exclusive=True)
RECURSIVE cumprod_from(_, _, _)
cumprod_from(x, i, running) ==
  IF i > Len(x) THEN <<>>
  ELSE <<running>> \o cumprod_from(x, i + 1, QMul(running, x[i]))

cumprod_exclusive(x) == cumprod_from(x, 1, One)

\* the loop: alloc_weights += I[idx] * unorder[0, pos] for every pos
RECURSIVE scatter(_, _, _, _)
scatter(acc, fl, unorder, pos) ==
  IF pos > Len(fl) THEN acc
  ELSE The({ scatter(next, fl, unorder, pos + 1) :
             next \in { [i \in 1..Len(acc) |->
                           QAdd(acc[i], QMul(IF i = fl[pos] THEN One ELSE Zero,
                                             unorder[pos]))] } })

allocation_weighting(u) ==
  The({ The({ The({ scatter(Fill(Len(u), Zero), t.indices, unorder, 1) :
    unorder \in { [p \in 1..Len(u) |->
                    QMul(QSub(One, sorted_usage_vec[p]), cumprod[p])] } }) :
    cumprod \in { cumprod_exclusive(sorted_usage_vec) } }) :
    t \in { top_k_usage(u) },
    sorted_usage_vec \in { [p \in 1..Len(u) |-> QMul(QInt(-1), top_k_usage(u).values[p])] } })

-----------------------------------------------------------------------------
(* DNC.call *)

\* call() with the read ahead of the write
callOrder_readFirst == <<"controller", "project", "partition", "read", "write">>

\* the statements of call(), in program order
callOrder == <<"controller", "project", "partition", "write", "read">>

harness == <<op, key, strength, free_list, ret, M_prev>>
config == <<N, W, R>>
memory == <<M, usage, L, W_precedence, W_read, W_write, read_v>>

At(name) == pc \in 1..Len(callOrder) /\ callOrder[pc] = name

\* what every statement of call() does to the position and the step count
Advance(name) ==
  /\ trace' = Append(trace, name)
  /\ IF pc = Len(callOrder)
       THEN pc' = 0 /\ steps' = steps + 1 /\ hist' = Append(hist, iv)
       ELSE pc' = pc + 1 /\ steps' = steps /\ hist' = hist

\* call(x) is invoked
call_enter ==
  /\ op = ""
  /\ pc = 0
  /\ steps < MaxSteps
  /\ pc' = 1
  /\ trace' = <<>>
  /\ UNCHANGED <<config, steps, h, output, interface, parts, iv, memory, hist,
                 harness>>

\* self.controller(x): the LSTM leaves a new hidden state
call_controller ==
  /\ op = ""
  /\ At("controller")
  /\ \E hid \in HiddenStates : h' = hid
  /\ Advance("controller")
  /\ UNCHANGED <<config, output, interface, parts, iv, memory, harness>>

\* self.output = ...; self.interface = ...
call_project ==
  /\ op = ""
  /\ At("project")
  /\ output' = project_output(h)
  /\ interface' = project_interface(h, R, W)
  /\ Advance("project")
  /\ UNCHANGED <<config, h, parts, iv, memory, harness>>

\* (...) = self.partition_interface()
call_partition ==
  /\ op = ""
  /\ At("partition")
  /\ parts' = dynamic_partition(interface, partition(R, W), 10)
  /\ iv' = partition_interface(interface, R, W)
  /\ Advance("partition")
  /\ UNCHANGED <<config, h, output, interface, memory, harness>>

\* self.write()
call_write ==
  /\ op = ""
  /\ At("write")
  /\ DoWrite
  /\ Advance("write")
  /\ UNCHANGED <<config, h, output, interface, parts, iv, harness>>

\* self.read()
call_read ==
  /\ op = ""
  /\ At("read")
  /\ DoRead
  /\ Advance("read")
  /\ UNCHANGED <<config, h, output, interface, parts, iv, harness>>

Init ==
  /\ N \in 1..MaxN
  /\ W \in 1..MaxW
  /\ R \in 1..MaxR
  /\ pc = 0
  /\ steps = 0
  /\ h \in HiddenStates
  /\ output = 0
  /\ interface = InitInterface(R, W)
  /\ parts = <<>>
  /\ iv = NoIv
  /\ M = InitM(N, W)
  /\ usage = InitUsage(N)
  /\ L = InitL(N)
  /\ W_precedence = InitPrecedence(N)
  /\ W_read = InitWRead(N, R)
  /\ W_write = InitWWrite(N)
  /\ read_v = InitReadV(R, W)
  /\ trace = <<>>
  /\ hist = <<>>
  /\ op = ""
  /\ key = <<>>
  /\ strength = <<>>
  /\ free_list = <<>>
  /\ ret = <<>>
  /\ M_prev = <<>>

Next ==
  \/ call_enter
  \/ call_controller
  \/ call_project
  \/ call_partition
  \/ call_write
  \/ call_read

Spec == Init /\ [][Next]_vars
-----------------------------------------------------------------------------
(* Unit harness: one method is handed drawn inputs and run once *)

TestRowRaw(w, t) ==
  [j \in 1..w |->
     CASE t = 1 -> 0
       [] t = 2 -> (IF j = 1 THEN 3 ELSE IF j = w THEN 4 ELSE 0)
       [] OTHER -> (IF j = w THEN -1 ELSE 0)]

\* rows whose squared norm is a perfect square
TestRows(w) == {QSeq(TestRowRaw(w, t)) : t \in 1..3}

OneHot(n, k) == [i \in 1..n |-> IF i = k THEN One ELSE Zero]

UnitIdle ==
  /\ pc = 0
  /\ steps = 0
  /\ h = 1
  /\ output = 0
  /\ parts = <<>>
  /\ trace = <<>>
  /\ hist = <<>>
  /\ free_list = <<>>
  /\ ret = <<>>
  /\ M_prev = <<>>

InitPartitionUnit ==
  /\ op = "partition_interface"
  /\ N = 2
  /\ W \in 1..MaxW
  /\ R \in 1..MaxR
  /\ interface = [i \in 1..interface_dim(R, W) |-> i]
  /\ iv = NoIv
  /\ M = InitM(N, W)
  /\ usage = InitUsage(N)
  /\ L = InitL(N)
  /\ W_precedence = InitPrecedence(N)
  /\ W_read = InitWRead(N, R)
  /\ W_write = InitWWrite(N)
  /\ read_v = InitReadV(R, W)
  /\ key = <<>>
  /\ strength = <<>>
  /\ UnitIdle

InitAllocUnit ==
  /\ op = "allocation_weighting"
  /\ N \in 1..MaxN
  /\ W = 1
  /\ R = 1
  /\ interface = InitInterface(R, W)
  /\ iv = NoIv
  /\ M = InitM(N, W)
  /\ usage \in [1..N -> {Q(k, Den) : k \in 0..Den}]
  /\ L = InitL(N)
  /\ W_precedence = InitPrecedence(N)
  /\ W_read = InitWRead(N, R)
  /\ W_write = InitWWrite(N)
  /\ read_v = InitReadV(R, W)
  /\ key = <<>>
  /\ strength = <<>>
  /\ UnitIdle

InitLookupUnit ==
  /\ op = "content_lookup"
  /\ N \in 1..UnitN
  /\ W \in 1..MaxW
  /\ R \in 1..MaxR
  /\ interface = InitInterface(R, W)
  /\ iv = NoIv
  /\ M \in [1..N -> TestRows(W)]
  /\ usage = InitUsage(N)
  /\ L = InitL(N)
  /\ W_precedence = InitPrecedence(N)
  /\ W_read = InitWRead(N, R)
  /\ W_write = InitWWrite(N)
  /\ read_v = InitReadV(R, W)
  /\ key \in [1..R -> TestRows(W)]
  /\ strength \in [1..R -> {QInt(1), QInt(2)}]
  /\ UnitIdle

InitWriteUnit ==
  /\ op = "write"
  /\ N \in 1..UnitN
  /\ W \in 1..MaxW
  /\ R = 1
  /\ interface = InitInterface(R, W)
  /\ \E e \in {Fill(W, One), Fill(W, Q(1, 2))}, wv \in {Fill(W, One), Fill(W, Zero)} :
       iv = [NoIv EXCEPT !.erase = e, !.write_v = wv]
  /\ M \in [1..N -> TestRows(W)]
  /\ usage = InitUsage(N)
  /\ L = InitL(N)
  /\ W_precedence = InitPrecedence(N)
  /\ W_read = InitWRead(N, R)
  /\ W_write \in {OneHot(N, k) : k \in 1..N} \cup {InitWWrite(N)}
  /\ read_v = InitReadV(R, W)
  /\ key = <<>>
  /\ strength = <<>>
  /\ UnitIdle

InitReadUnit ==
  /\ op = "read"
  /\ N \in 1..UnitN
  /\ W \in 1..MaxW
  /\ R \in 1..MaxR
  /\ interface = InitInterface(R, W)
  /\ iv = NoIv
  /\ M \in [1..N -> TestRows(W)]
  /\ usage = InitUsage(N)
  /\ L = InitL(N)
  /\ W_precedence = InitPrecedence(N)
  /\ \E t \in [1..R -> 0..N] :
       W_read = [i \in 1..N |-> [r \in 1..R |->
                   IF t[r] = 0 THEN Eps ELSE OneHot(N, t[r])[i]]]
  /\ W_write = InitWWrite(N)
  /\ read_v = InitReadV(R, W)
  /\ key = <<>>
  /\ strength = <<>>
  /\ UnitIdle

Ran == steps' = 1 /\ UNCHANGED <<config, pc, h, output, trace, hist, op, key, strength>>

partition_interface_unit ==
  /\ op = "partition_interface" /\ steps = 0
  /\ parts' = dynamic_partition(interface, partition(R, W), 10)
  /\ iv' = partition_interface(interface, R, W)
  /\ ret' = iv'
  /\ Ran
  /\ UNCHANGED <<interface, memory, free_list, M_prev>>

allocation_weighting_unit ==
  /\ op = "allocation_weighting" /\ steps = 0
  /\ free_list' = top_k_usage(usage).indices
  /\ ret' = allocation_weighting(usage)
  /\ Ran
  /\ UNCHANGED <<interface, parts, iv, memory, M_prev>>

content_lookup_unit ==
  /\ op = "content_lookup" /\ steps = 0
  /\ ret' = content_lookup(M, key, strength)
  /\ Ran
  /\ UNCHANGED <<interface, parts, iv, memory, free_list, M_prev>>

write_unit ==
  /\ op = "write" /\ steps = 0
  /\ M_prev' = M
  /\ DoWrite
  /\ Ran
  /\ UNCHANGED <<interface, parts, iv, free_list, ret>>

read_unit ==
  /\ op = "read" /\ steps = 0
  /\ M_prev' = M
  /\ DoRead
  /\ Ran
  /\ UNCHANGED <<interface, parts, iv, free_list, ret>>

InitUnit == InitPartitionUnit \/ InitAllocUnit \/ InitLookupUnit

NextUnit ==
  \/ partition_interface_unit
  \/ allocation_weighting_unit
  \/ content_lookup_unit

SpecUnit == InitUnit /\ [][NextUnit]_vars

InitStub == InitWriteUnit \/ InitReadUnit

NextStub == write_unit \/ read_unit

SpecStub == InitStub /\ [][NextStub]_vars
-----------------------------------------------------------------------------
(* Properties *)

RECURSIVE SumInts(_)
SumInts(s) == IF s = <<>> THEN 0 ELSE Head(s) + SumInts(Tail(s))

Range(f) == {f[i] : i \in DOMAIN f}

\* the ten field lengths, in the documented order
FieldLens(r, w) == <<r * w, r, w, 1, w, w, r, 1, 1, 3 * r>>

FieldStart(r, w, f) == SumInts(SubSeq(FieldLens(r, w), 1, f - 1))

PartitionRan == op = "partition_interface" /\ steps = 1

\* C1: partition_interface splits the interface vector into ten fields, in the
\* order read keys (R*W), read strengths (R), write key (W), write strength (1),
\* erase (W), write vector (W), free gates (R), allocation gate (1), write gate
\* (1), read mode logits (3*R); the lengths sum to interface_dim = R*W + 3W +
\* 5R + 3; every index lies in exactly one field and each field is a contiguous
\* run of indices.  (The harness tags interface entry i with the value i.)
C1_FieldLayout ==
  PartitionRan =>
    /\ Len(parts) = 10
    /\ \A f \in 1..10 :
         parts[f] = [i \in 1..FieldLens(R, W)[f] |-> FieldStart(R, W, f) + i]
    /\ SumInts(FieldLens(R, W)) = interface_dim(R, W)
    /\ interface_dim(R, W) = R * W + 3 * W + 5 * R + 3
    /\ Len(interface) = interface_dim(R, W)
    /\ \A idx \in 1..Len(interface) :
         Cardinality({f \in 1..10 : idx \in Range(parts[f])}) = 1

C1_Witness == PartitionRan /\ R >= 2 /\ W >= 2 /\ Len(parts) = 10

ExpectedOrder == <<"controller", "project", "partition", "write", "read">>

\* C2: in every invocation of call the sub-steps run in the order controller
\* update, interface projection, interface partition, write, read: what has run
\* so far is always a prefix of that order, and a finished invocation has run
\* all five.
C2_StepOrder ==
  /\ \E k \in 0..5 : trace = SubSeq(ExpectedOrder, 1, k)
  /\ (pc = 0 /\ steps >= 1) => trace = ExpectedOrder

C2_Witness == pc = 0 /\ steps >= 2 /\ trace = ExpectedOrder

IsOneHot(v, k) == \A i \in 1..Len(v) : v[i] = (IF i = k THEN One ELSE Zero)

\* C3: a write step with erase = 1 in every column and a write weighting one-hot
\* on row k leaves M[k] equal to write_v and every other row unchanged.
C3_WriteRoundTrip ==
  (op = "write" /\ steps = 1 /\ \A c \in 1..W : iv.erase[c] = One) =>
    \A k \in 1..N :
      IsOneHot(W_write, k) =>
        /\ M[k] = iv.write_v
        /\ \A j \in 1..N : j /= k => M[j] = M_prev[j]

\* C4: if the read weighting of head r is one-hot on row k, then after the read
\* step the read vector of head r equals row k of the memory.
C4_ReadOneHot ==
  (op = "read" /\ steps = 1) =>
    \A r \in 1..R, k \in 1..N :
      IsOneHot([i \in 1..N |-> W_read[i][r]], k) => read_v[r] = M[k]

ScenarioStep(e, v) ==
  /\ e.alloc_gate = One
  /\ e.write_gate = One
  /\ e.erase = <<One, One>>
  /\ e.write_v = <<QInt(v), QInt(v)>>

AllZero(m) == \A i \in DOMAIN m : \A j \in DOMAIN m[i] : m[i][j] = Zero

\* C5: with N=4, W=2, R=1 from the initial state: after a first step that writes
\* with allocation gate 1, write gate 1, erase [1,1] and write_v [1,1], exactly
\* one row of M is [1,1], that row's usage has increased and L is all zero;
\* after a second such step with write_v [2,2] a different row holds [2,2], the
\* precedence vector is concentrated on it and L[second, first] > 0.
C5_Scenario ==
  (N = 4 /\ W = 2 /\ R = 1 /\ pc = 0) =>
    /\ (steps = 1 /\ ScenarioStep(hist[1], 1)) =>
         /\ Cardinality({k \in 1..N : M[k] = <<One, One>>}) = 1
         /\ \A k \in 1..N : M[k] = <<One, One>> => QLt(Eps, usage[k])
         /\ AllZero(L)
    /\ (steps = 2 /\ ScenarioStep(hist[1], 1) /\ ScenarioStep(hist[2], 2)) =>
         \E k1, k2 \in 1..N :
           /\ k1 /= k2
           /\ M[k1] = <<One, One>>
           /\ M[k2] = <<QInt(2), QInt(2)>>
           /\ \A j \in 1..N : j /= k2 => QLt(W_precedence[j], W_precedence[k2])
           /\ QLt(Zero, L[k2][k1])

AllocRan == op = "allocation_weighting" /\ steps = 1

IsMinUsage(m) == \A j \in 1..N : QLe(usage[m], usage[j])

\* C6: for every usage vector with entries in [0,1], tied entries included, the
\* allocation weighting is entrywise non-negative, sums to at most 1, and a row
\* of minimum usage has a weight at least that of every other row.
C6_AllocationBounds ==
  AllocRan =>
    /\ \A i \in 1..N : QLe(Zero, ret[i])
    /\ QLe(QSum(ret), One)
    /\ \E m \in 1..N : IsMinUsage(m) /\ \A j \in 1..N : QLe(ret[j], ret[m])

C6_Witness ==
  /\ AllocRan
  /\ N >= 3
  /\ \E i, j \in 1..N :
       /\ i /= j /\ usage[i] = usage[j] /\ IsMinUsage(i)
       /\ QLt(Zero, usage[i]) /\ QLt(usage[i], One)
       /\ QLt(ret[j], ret[i])

\* C7: in every state reachable from construction by any number of time steps
\* the diagonal of the temporal link matrix is exactly zero.
C7_LinkDiagonalZero == op = "" => \A i \in 1..N : L[i][i] = Zero

C7_Witness ==
  /\ op = "" /\ pc = 0 /\ steps >= 2 /\ N >= 3
  /\ \E i \in 1..Len(trace) : trace[i] = "write"
  /\ \A i \in 1..N : L[i][i] = Zero

InUnit(x) == QLe(Zero, x) /\ QLe(x, One)

\* C8: in every state reachable from construction by time steps whose free
\* gates and write weighting are within [0,1], every entry of the usage vector
\* is within [0,1].
C8_UsageInUnitInterval ==
  (/\ op = ""
   /\ \A s \in 1..Len(hist) : \A r \in 1..R : InUnit(hist[s].free_gates[r])
   /\ \A i \in 1..N : InUnit(W_write[i]))
  => \A i \in 1..N : InUnit(usage[i])

C8_Witness ==
  /\ op = "" /\ pc = 0 /\ steps >= 1
  /\ \A i \in 1..N : InUnit(W_write[i])
  /\ \E s \in 1..Len(hist) : \A r \in 1..R : hist[s].free_gates[r] = One
  /\ \A i \in 1..N : InUnit(usage[i])

LookupRan == op = "content_lookup" /\ steps = 1

\* C9: content_lookup returns an N x K weighting that is entrywise non-negative
\* and whose K columns each sum to 1 over the N memory rows.
C9_LookupColumns ==
  LookupRan =>
    /\ Len(ret) = N
    /\ \A i \in 1..N : Len(ret[i]) = Len(key)
    /\ \A i \in 1..N : \A j \in 1..Len(key) : QLe(Zero, ret[i][j])
    /\ \A j \in 1..Len(key) : QSum([i \in 1..N |-> ret[i][j]]) = One

C9_Witness ==
  /\ LookupRan
  /\ N >= 2 /\ Len(key) >= 2 /\ W >= 2
  /\ \E j \in 1..Len(key) : QLt(ret[1][j], ret[2][j])
  /\ \E i \in 1..N : QSum(ret[i]) /= One

RECURSIVE RefProd(_, _, _)
\* the product of u[fl[i]] over the sorted positions i < k
RefProd(u, fl, k) ==
  IF k <= 1 THEN One ELSE QMul(u[fl[k - 1]], RefProd(u, fl, k - 1))

\* C10: allocation_weighting equals the reference computation: free_list is a
\* permutation of the rows that sorts the usage in ascending order, tied
\* entries included, and the weight of row free_list[k] is
\* (1 - s[k]) * product of s[i] for i < k, with s[k] = u[free_list[k]].
C10_AllocationReference ==
  AllocRan =>
    /\ Len(free_list) = N
    /\ Range(free_list) = 1..N
    /\ \A k \in 1..(N - 1) : QLe(usage[free_list[k]], usage[free_list[k + 1]])
    /\ \A k \in 1..N :
         ret[free_list[k]] =
           QMul(QSub(One, usage[free_list[k]]), RefProd(usage, free_list, k))

C10_Witness ==
  /\ AllocRan
  /\ N >= 3
  /\ \E i, j \in 1..N : i < j /\ usage[i] = usage[j] /\ QLt(Zero, ret[j])
  /\ \E i, j \in 1..N : usage[i] /= usage[j]
  /\ Range(free_list) = 1..N
====
